---------------------------- MODULE Spec2Model ----------------------------
(***************************************************************************)
(* A model of SecureApp (src/app.py): a login-gated contact list.          *)
(*                                                                         *)
(* Strings are sequences of one-character strings, so that strip(),        *)
(* upper(), "in", startswith() and endswith() are computed character by    *)
(* character as Python computes them.                                      *)
(***************************************************************************)
EXTENDS Integers, Sequences, FiniteSets, TLC

VARIABLES
    field_data,    \* the value handed to a form field's validators
    verdict,       \* what the validators last answered about field_data
    users,         \* table "users": the credential store
    first_app,     \* table "first_app": the contact records
    sessions,      \* each caller's Flask session (a dict)
    admin_seeded,  \* app._admin_seeded
    config,        \* DEFAULT_ADMIN_USERNAME / DEFAULT_ADMIN_PASSWORD (environment)
    last,          \* the response to the last request
    logged_out,    \* history: callers whose last session transition was a logout
    born,          \* history: the creation stamp of each stored contact record
    clock          \* history: the number of contact records created so far

vars == <<field_data, verdict, users, first_app, sessions, admin_seeded,
          config, last, logged_out, born, clock>>

appVars == <<users, first_app, sessions, admin_seeded, last,
             logged_out, born, clock>>

-----------------------------------------------------------------------------
(* Bounds of the model                                                     *)

\* an input of the screening specification is made of at most this many pieces
MaxPieces == 3
\* the contact records created in one run
MaxCreates == 3
\* the callers (browsers), each with a session of its own
NumCallers == 2
\* the salts bcrypt may draw
NumSalts == 2

-----------------------------------------------------------------------------
(* Python strings                                                          *)

Lower == <<"a","b","c","d","e","f","g","h","i","j","k","l","m",
           "n","o","p","q","r","s","t","u","v","w","x","y","z">>
Upper == <<"A","B","C","D","E","F","G","H","I","J","K","L","M",
           "N","O","P","Q","R","S","T","U","V","W","X","Y","Z">>
Letters == {Lower[i] : i \in 1..26} \cup {Upper[i] : i \in 1..26}
Digits == {"0","1","2","3","4","5","6","7","8","9"}
\* the whitespace str.strip() removes, among the characters of the model
Whitespace == {" ", "\t", "\n"}

SetMin(S) == CHOOSE x \in S : \A y \in S : x <= y
SetMax(S) == CHOOSE x \in S : \A y \in S : x >= y

\* str.lstrip()
RECURSIVE lstrip(_)
lstrip(s) ==
    IF s = <<>> \/ Head(s) \notin Whitespace THEN s ELSE lstrip(Tail(s))

\* str.rstrip()
RECURSIVE rstrip(_)
rstrip(s) ==
    IF s = <<>> \/ s[Len(s)] \notin Whitespace THEN s
    ELSE rstrip(SubSeq(s, 1, Len(s) - 1))

\* str.strip()
strip(s) == rstrip(lstrip(s))

\* the upper case of each lower-case letter
UpperOf == [ch \in {Lower[i] : i \in 1..26} |->
               Upper[CHOOSE i \in 1..26 : Lower[i] = ch]]

upper_char(ch) == IF ch \in DOMAIN UpperOf THEN UpperOf[ch] ELSE ch

\* str.upper()
upper(s) == [i \in 1..Len(s) |-> upper_char(s[i])]

\* sub in s
contains(s, sub) ==
    \E i \in 1..(Len(s) - Len(sub) + 1) : SubSeq(s, i, i + Len(sub) - 1) = sub

\* s.startswith(p)
startswith(s, p) == Len(p) <= Len(s) /\ SubSeq(s, 1, Len(p)) = p

\* s.endswith(p)
endswith(s, p) ==
    Len(p) <= Len(s) /\ SubSeq(s, Len(s) - Len(p) + 1, Len(s)) = p

-----------------------------------------------------------------------------
(* The denylist: FORBIDDEN_SEQUENCES, SQL_KEYWORDS, reject_injection       *)

FORBIDDEN_SEQUENCES == { <<"-","-">>, <<";">>, <<"/","*">>, <<"*","/">> }

SQL_KEYWORDS ==
    { <<"S","E","L","E","C","T">>, <<"I","N","S","E","R","T">>,
      <<"U","P","D","A","T","E">>, <<"D","E","L","E","T","E">>,
      <<"D","R","O","P">>, <<"A","L","T","E","R">>, <<"U","N","I","O","N">> }

\* variant: the keyword searched as a plain substring
keyword_hit_substring(upper_value, keyword) == contains(upper_value, keyword)

\* a keyword matched as the code matches it (lines 77-82)
keyword_hit(upper_value, keyword) ==
    \/ upper_value = keyword
    \/ startswith(upper_value, keyword \o <<" ">>)
    \/ endswith(upper_value, <<" ">> \o keyword)
    \/ contains(upper_value, <<" ">> \o keyword \o <<" ">>)

\* TRUE when the validator raises ValidationError
reject_injection(data) ==
    LET value == strip(data)
    IN  \/ \E seq \in FORBIDDEN_SEQUENCES : contains(value, seq)
        \/ \E keyword \in SQL_KEYWORDS : keyword_hit(upper(value), keyword)

-----------------------------------------------------------------------------
(* wtforms validators                                                      *)

\* DataRequired: the data is truthy and, a string, not only whitespace
DataRequired(data) == data # <<>> /\ strip(data) # <<>>

\* Length(min, max)
Length(data, min, max) == Len(data) >= min /\ Len(data) <= max

\* Regexp("^[chars]+$"): re.match, whose $ also matches before one final newline
Regexp(chars, data) ==
    /\ Len(data) >= 1
    /\ LET body == IF data[Len(data)] = "\n"
                   THEN SubSeq(data, 1, Len(data) - 1)
                   ELSE data
       IN  Len(body) >= 1 /\ \A i \in 1..Len(body) : body[i] \in chars

NameChars == Letters \cup {"'", " ", "-"}
UsernameChars == Letters \cup Digits \cup {"_", ".", "@", "-"}

\* the characters of an address's local part (RFC 5322 atext and the dot),
\* among the characters of the model
EmailLocalChars ==
    Letters \cup Digits
    \cup {"!", "#", "%", "&", "'", "*", "+", "-", "/", "=", "?", "_", "."}
EmailDomainChars == Letters \cup Digits \cup {"-", "."}

\* Email: local@domain, a dot-atom local part and a dotted host name
Email(data) ==
    LET ats == {i \in 1..Len(data) : data[i] = "@"}
    IN  /\ Cardinality(ats) = 1
        /\ LET at == CHOOSE i \in ats : TRUE
               local == SubSeq(data, 1, at - 1)
               domain == SubSeq(data, at + 1, Len(data))
               dotAtom(s) == /\ Len(s) >= 1
                             /\ s[1] # "." /\ s[Len(s)] # "."
                             /\ ~contains(s, <<".", ".">>)
           IN  /\ dotAtom(local) /\ dotAtom(domain)
               /\ \A i \in 1..Len(local) : local[i] \in EmailLocalChars
               /\ \A i \in 1..Len(domain) : domain[i] \in EmailDomainChars
               /\ contains(domain, <<".">>)

\* ContactForm.fname
validate_fname(data) ==
    /\ DataRequired(data)
    /\ Length(data, 0, 100)
    /\ Regexp(NameChars, data)
    /\ ~reject_injection(data)

\* ContactForm.lname
validate_lname(data) ==
    /\ DataRequired(data)
    /\ Length(data, 0, 100)
    /\ Regexp(NameChars, data)
    /\ ~reject_injection(data)

\* ContactForm.email
validate_email(data) ==
    /\ DataRequired(data)
    /\ Email(data)
    /\ Length(data, 0, 200)
    /\ ~reject_injection(data)

\* LoginForm.username
validate_username(data) ==
    /\ DataRequired(data)
    /\ Length(data, 3, 80)
    /\ Regexp(UsernameChars, data)

\* LoginForm.password
validate_password(data) ==
    /\ DataRequired(data)
    /\ Length(data, 8, 128)

-----------------------------------------------------------------------------
(* The state of the application                                            *)

Callers == 1..NumCallers
Salts == 1..NumSalts

\* DEFAULT_ADMIN_USERNAME, when the environment does not set it
DefaultUsername ==
    <<"i","2","2","1","6","9","3","@","n","u",".","e","d","u",".","p","k">>
\* DEFAULT_ADMIN_PASSWORD, when the environment does not set it
DefaultPassword == <<"1","2","3","4","5","6","@","a">>

\* what the environment may set them to
AdminUsernames == {DefaultUsername, <<"r","o","o","t">>}
AdminPasswords == {DefaultPassword, <<"a","d","m","i","n">>}
Configs == [username : AdminUsernames, password : AdminPasswords]
DefaultConfig == [username |-> DefaultUsername, password |-> DefaultPassword]

\* a session with no key set (a new one, or one after session.clear())
EmptySession == [k \in {} |-> TRUE]

\* the session of a logged-in caller (lines 177-179)
AuthSession(id) == [user_id |-> id, permanent |-> TRUE]

\* not session.get("user_id")
Anonymous(s) == "user_id" \notin DOMAIN s \/ s["user_id"] = 0

NoVerdict == [validator |-> "none"]

AppInit ==
    /\ users = {}
    /\ first_app = {}
    /\ sessions = [c \in Callers |-> EmptySession]
    /\ admin_seeded = FALSE
    /\ last = [op |-> "none", status |-> 0,
               location |-> [to |-> [endpoint |-> "none", sno |-> 0],
                             next |-> [endpoint |-> "none", sno |-> 0]]]
    /\ logged_out = {}
    /\ born = [k \in {} |-> 0]
    /\ clock = 0

-----------------------------------------------------------------------------
(* The credential store: User, ensure_seed_admin, bootstrap_seed_admin     *)

\* bcrypt.generate_password_hash: the digest of a password under a fresh salt
generate_password_hash(password, salt) == [password |-> password, salt |-> salt]

\* User.check_password: bcrypt.check_password_hash(self.password_hash, password)
check_password(user, password) == user.password_hash.password = password

\* User.query.filter_by(username=...): username is unique
users_by_name(us, username) == {u \in us : u.username = username}

\* the id the store gives a new User row (an integer primary key)
next_user_id(us) == IF us = {} THEN 1 ELSE SetMax({u.id : u \in us}) + 1

\* variant: the seed password is hashed again on every run
ensure_seed_admin_rehash(us, cfg, salt) ==
    LET found == users_by_name(us, cfg.username)
        hash == generate_password_hash(cfg.password, salt)
    IN  IF found = {}
        THEN us \cup {[id |-> next_user_id(us), username |-> cfg.username,
                       password_hash |-> hash]}
        ELSE (us \ found) \cup {[u EXCEPT !.password_hash = hash] : u \in found}

\* ensure_seed_admin(): the users table after the call
ensure_seed_admin(us, cfg, salt) ==
    LET found == users_by_name(us, cfg.username)
        hash == generate_password_hash(cfg.password, salt)
    IN  IF found # {} /\ \A u \in found : check_password(u, cfg.password)
        THEN us
        ELSE IF found = {}
             THEN us \cup {[id |-> next_user_id(us), username |-> cfg.username,
                            password_hash |-> hash]}
             ELSE (us \ found)
                  \cup {[u EXCEPT !.password_hash = hash] : u \in found}

\* bootstrap_seed_admin(), which runs before every request's view
bootstrap_seed_admin ==
    /\ IF admin_seeded THEN users' = users
       ELSE \E salt \in Salts : users' = ensure_seed_admin(users, config, salt)
    /\ admin_seeded' = TRUE

-----------------------------------------------------------------------------
(* Requests and responses                                                  *)

\* request.path: the route and, for /delete/<sno> and /update/<sno>, the sno
Path(endpoint, sno) == [endpoint |-> endpoint, sno |-> sno]
NoPath == Path("none", 0)

\* a URL: the path it leads to and, for url_for("login", next=path), the
\* return target
Url(to, next) == [to |-> to, next |-> next]
NoUrl == Url(NoPath, NoPath)

\* the answer to request op: redirect(location)
Redirect(op, location) == [op |-> op, status |-> 302, location |-> location]
\* the answer to request op: render_template(...) with the status given, or
\* an error page
Page(op, status) == [op |-> op, status |-> status, location |-> NoUrl]

\* variant: the view runs whoever asks
login_required_off(s) == TRUE

\* login_required: the view runs when session.get("user_id") is truthy
login_required(s) == ~Anonymous(s)

\* the wrapper's answer to an anonymous caller (lines 137-138)
Unauthenticated(op, path) == Redirect(op, Url(Path("login", 0), path))

-----------------------------------------------------------------------------
(* The contact records: FirstApp and the contact form                      *)

\* FirstApp.query.get(sno)
rows_by_sno(rows, sno) == {r \in rows : r.sno = sno}

\* variant: the lowest free sno is given
next_sno_lowest_free(rows) ==
    SetMin({n \in 1..(Cardinality(rows) + 1) : rows_by_sno(rows, n) = {}})

\* the sno the store gives a new row: one more than the largest in the table
next_sno(rows) == IF rows = {} THEN 1 ELSE SetMax({r.sno : r \in rows}) + 1

\* FirstApp.query.order_by(FirstApp.sno.asc()).all()
RECURSIVE students(_)
students(rows) ==
    IF rows = {} THEN <<>>
    ELSE LET r == CHOOSE x \in rows : \A y \in rows : x.sno <= y.sno
         IN  <<r>> \o students(rows \ {r})

\* variant: the last name is not validated
contact_form_validates_two(fname, lname, email) ==
    validate_fname(fname) /\ validate_email(email)

\* ContactForm.validate(): every field's chain of validators passes
contact_form_validates(fname, lname, email) ==
    validate_fname(fname) /\ validate_lname(lname) /\ validate_email(email)

\* variant: the username is looked up as typed
login_lookup_raw(us, username) == users_by_name(us, username)

\* login(): User.query.filter_by(username=form.username.data.strip()).first()
login_lookup(us, username) == users_by_name(us, strip(username))

\* LoginForm.validate()
login_form_validates(username, password) ==
    validate_username(username) /\ validate_password(password)

\* variant: each valid field is applied, whatever the others
update_row_fieldwise(rec, fname, lname, email) ==
    [rec EXCEPT !.fname = IF validate_fname(fname) THEN strip(fname) ELSE @,
                !.lname = IF validate_lname(lname) THEN strip(lname) ELSE @,
                !.email = IF validate_email(email) THEN strip(email) ELSE @]

\* update(): the row after a POST (lines 237-240)
update_row(rec, fname, lname, email) ==
    IF contact_form_validates(fname, lname, email)
    THEN [rec EXCEPT !.fname = strip(fname), !.lname = strip(lname),
                     !.email = strip(email)]
    ELSE rec

\* variant: the session is not cleared
logout_session_kept(s) == s

\* logout(): the session after session.clear()
logout_session(s) == EmptySession

\* variant: a login ends the user's sessions elsewhere
login_sessions_single(ss, c, id) ==
    [d \in DOMAIN ss |->
        IF d = c THEN AuthSession(id)
        ELSE IF ~Anonymous(ss[d]) /\ ss[d]["user_id"] = id THEN EmptySession
        ELSE ss[d]]

\* login(): the sessions after a successful login by caller c (lines 177-179)
login_sessions(ss, c, id) == [ss EXCEPT ![c] = AuthSession(id)]

-----------------------------------------------------------------------------
(* The request handlers.  Each action is one request that passed the       *)
(* anti-forgery check: bootstrap_seed_admin, then the view behind its      *)
(* login_required wrapper.  CsrfReject is a request that did not pass.     *)

Form(fname, lname, email) == [fname |-> fname, lname |-> lname, email |-> email]
Credentials(username, password, next) ==
    [username |-> username, password |-> password, next |-> next]

\* what a caller may send to POST /login: the seed admin's name with its
\* password, the same with ?next=/update/1, with a newline after the name,
\* with a space before it, with a wrong password, and with a password too
\* short for the form
LoginInputs ==
    { Credentials(DefaultUsername, DefaultPassword, NoPath),
      Credentials(DefaultUsername, DefaultPassword, Path("update", 1)),
      Credentials(DefaultUsername \o <<"\n">>, DefaultPassword, NoPath),
      Credentials(<<" ">> \o DefaultUsername, DefaultPassword, NoPath),
      Credentials(DefaultUsername, <<"p","a","s","s","w","o","r","d">>, NoPath),
      Credentials(DefaultUsername, <<"a","d","m","i","n">>, NoPath) }

\* what a caller may type into the contact form: two forms that pass (the
\* second with whitespace around the first name), one whose last name holds
\* "--", one whose email holds "/*"
ContactInputs ==
    { Form(<<"A","l">>, <<"O","'","N">>, <<"a","@","x",".","x">>),
      Form(<<" ","D","i","\n">>, <<"O","'","N">>, <<"a","@","x",".","x">>),
      Form(<<"D","i">>, <<"x","-","-","y">>, <<"a","@","x",".","x">>),
      Form(<<"A","l">>, <<"O","'","N">>, <<"/","*","@","x",".","x">>) }

\* the sno of a /delete/<sno> or /update/<sno> request
SnoInputs == 1..MaxCreates

\* GET /login
LoginGet(c) ==
    /\ bootstrap_seed_admin
    /\ last' = Page("login_get", 200)
    /\ UNCHANGED <<field_data, verdict, first_app, sessions, config,
                   logged_out, born, clock>>

\* POST /login
LoginPost(c, username, password, next) ==
    /\ bootstrap_seed_admin
    /\ LET found == login_lookup(users', username)
           ok == /\ login_form_validates(username, password)
                 /\ found # {}
                 /\ \A u \in found : check_password(u, password)
       IN  IF ok
           THEN LET user == CHOOSE u \in found : TRUE
                IN  /\ sessions' = login_sessions(sessions, c, user.id)
                    /\ logged_out' = logged_out \ {c}
                    /\ last' = Redirect("login_post", Url(IF next = NoPath THEN Path("index", 0)
                                       ELSE next, NoPath))
           ELSE /\ last' = Page("login_post", 200)
                /\ UNCHANGED <<sessions, logged_out>>
    /\ UNCHANGED <<field_data, verdict, first_app, config, born, clock>>

\* GET /logout
Logout(c) ==
    /\ bootstrap_seed_admin
    /\ IF login_required(sessions[c])
       THEN /\ sessions' = [sessions EXCEPT ![c] = logout_session(@)]
            /\ logged_out' = logged_out \cup {c}
            /\ last' = Redirect("logout", Url(Path("login", 0), NoPath))
       ELSE /\ last' = Unauthenticated("logout", Path("logout", 0))
            /\ UNCHANGED <<sessions, logged_out>>
    /\ UNCHANGED <<field_data, verdict, first_app, config, born, clock>>

\* GET /
IndexGet(c) ==
    /\ bootstrap_seed_admin
    /\ last' = IF login_required(sessions[c]) THEN Page("index_get", 200)
               ELSE Unauthenticated("index_get", Path("index", 0))
    /\ UNCHANGED <<field_data, verdict, first_app, sessions, config,
                   logged_out, born, clock>>

\* POST /
IndexPost(c, fname, lname, email) ==
    /\ (login_required(sessions[c]) /\ contact_form_validates(fname, lname, email))
           => clock < MaxCreates
    /\ bootstrap_seed_admin
    /\ IF ~login_required(sessions[c])
       THEN /\ last' = Unauthenticated("index_post", Path("index", 0))
            /\ UNCHANGED <<first_app, born, clock>>
       ELSE IF contact_form_validates(fname, lname, email)
       THEN LET new_record == [sno |-> next_sno(first_app),
                               fname |-> strip(fname),
                               lname |-> strip(lname),
                               email |-> strip(email)]
            IN  /\ first_app' = first_app \cup {new_record}
                /\ clock' = clock + 1
                /\ born' = [n \in DOMAIN born \cup {new_record.sno} |->
                               IF n = new_record.sno THEN clock + 1 ELSE born[n]]
                /\ last' = Redirect("index_post", Url(Path("index", 0), NoPath))
       ELSE /\ last' = Page("index_post", 200)
            /\ UNCHANGED <<first_app, born, clock>>
    /\ UNCHANGED <<field_data, verdict, sessions, config, logged_out>>

\* POST /delete/<sno>
Delete(c, sno) ==
    /\ bootstrap_seed_admin
    /\ IF ~login_required(sessions[c])
       THEN /\ last' = Unauthenticated("delete", Path("delete", sno))
            /\ UNCHANGED <<first_app, born>>
       ELSE IF rows_by_sno(first_app, sno) = {}
       THEN /\ last' = Page("delete", 404)
            /\ UNCHANGED <<first_app, born>>
       ELSE /\ first_app' = first_app \ rows_by_sno(first_app, sno)
            /\ born' = [n \in DOMAIN born \ {sno} |-> born[n]]
            /\ last' = Redirect("delete", Url(Path("index", 0), NoPath))
    /\ UNCHANGED <<field_data, verdict, sessions, config, logged_out, clock>>

\* GET /update/<sno>
UpdateGet(c, sno) ==
    /\ bootstrap_seed_admin
    /\ last' = IF ~login_required(sessions[c])
               THEN Unauthenticated("update_get", Path("update", sno))
               ELSE IF rows_by_sno(first_app, sno) = {}
               THEN Page("update_get", 404)
               ELSE Page("update_get", 200)
    /\ UNCHANGED <<field_data, verdict, first_app, sessions, config,
                   logged_out, born, clock>>

\* POST /update/<sno>
UpdatePost(c, sno, fname, lname, email) ==
    /\ bootstrap_seed_admin
    /\ IF ~login_required(sessions[c])
       THEN /\ last' = Unauthenticated("update_post", Path("update", sno))
            /\ UNCHANGED first_app
       ELSE IF rows_by_sno(first_app, sno) = {}
       THEN /\ last' = Page("update_post", 404)
            /\ UNCHANGED first_app
       ELSE /\ first_app' =
                   {IF r.sno = sno THEN update_row(r, fname, lname, email) ELSE r :
                       r \in first_app}
            /\ last' = IF contact_form_validates(fname, lname, email)
                       THEN Redirect("update_post", Url(Path("index", 0), NoPath))
                       ELSE Page("update_post", 200)
    /\ UNCHANGED <<field_data, verdict, sessions, config, logged_out, born,
                   clock>>

\* a POST to any route without a valid anti-forgery token: CSRFProtect(app)
\* answers 400
\* before bootstrap_seed_admin and before the view
CsrfReject(c) ==
    /\ last' = Page("csrf", 400)
    /\ UNCHANGED <<field_data, verdict, users, first_app, sessions,
                   admin_seeded, config, logged_out, born, clock>>

\* the session cookie of a logged-in caller outlives PERMANENT_SESSION_LIFETIME
Expire(c) ==
    /\ "permanent" \in DOMAIN sessions[c]
    /\ sessions' = [sessions EXCEPT ![c] = EmptySession]
    /\ UNCHANGED <<field_data, verdict, users, first_app, admin_seeded,
                   config, last, logged_out, born, clock>>

\* the process starts again, under the environment cfg; started as a script
\* (main), it calls ensure_seed_admin() itself (lines 263-266)
Restart(cfg, main) ==
    /\ config' = cfg
    /\ admin_seeded' = FALSE
    /\ \E salt \in Salts :
           users' = IF main THEN ensure_seed_admin(users, cfg, salt) ELSE users
    /\ UNCHANGED <<field_data, verdict, first_app, sessions, last,
                   logged_out, born, clock>>

Init ==
    /\ field_data = <<>>
    /\ verdict = NoVerdict
    /\ config \in [username : {DefaultUsername}, password : AdminPasswords]
    /\ AppInit

Next ==
    \/ \E c \in Callers : LoginGet(c)
    \/ \E c \in Callers, cred \in LoginInputs :
          LoginPost(c, cred.username, cred.password, cred.next)
    \/ \E c \in Callers : Logout(c)
    \/ \E c \in Callers : IndexGet(c)
    \/ \E c \in Callers, f \in ContactInputs :
          IndexPost(c, f.fname, f.lname, f.email)
    \/ \E c \in Callers, sno \in SnoInputs : Delete(c, sno)
    \/ \E c \in Callers, sno \in SnoInputs : UpdateGet(c, sno)
    \/ \E c \in Callers, sno \in SnoInputs, f \in ContactInputs :
          UpdatePost(c, sno, f.fname, f.lname, f.email)
    \/ \E c \in Callers : CsrfReject(c)
    \/ \E c \in Callers : Expire(c)

Spec == Init /\ [][Next]_vars

-----------------------------------------------------------------------------
(* The seeding specification: the process is started again and again,      *)
(* under any environment, as a script or not, and serves the login page.   *)

SeedInit ==
    /\ field_data = <<>>
    /\ verdict = NoVerdict
    /\ config \in Configs
    /\ AppInit

SeedNext ==
    \/ \E cfg \in Configs, main \in BOOLEAN : Restart(cfg, main)
    \/ \E c \in Callers : LoginGet(c)

SpecSeed == SeedInit /\ [][SeedNext]_vars

-----------------------------------------------------------------------------
(* The screening specification: a field value drawn from the pieces below  *)
(* and handed to the denylist validator and to each form field's chain of  *)
(* validators.                                                             *)

Pieces ==
    { <<"D","R","O","P">>, <<"d","r","o","p">>, <<"U","n","i","o","n">>,
      <<" ">>, <<"\t">>, <<"\n">>, <<"-">>, <<";">>, <<"/">>, <<"*">>,
      <<"x">>, <<"3">>, <<"@","x",".","x">> }

RECURSIVE Concat(_)
Concat(ps) == IF ps = <<>> THEN <<>> ELSE Head(ps) \o Concat(Tail(ps))

ScreenInputs ==
    {Concat(ps) : ps \in UNION {[1..n -> Pieces] : n \in 0..MaxPieces}}

ScreenInit ==
    /\ field_data \in ScreenInputs
    /\ verdict = NoVerdict
    /\ config = DefaultConfig
    /\ AppInit

\* reject_injection(form, field)
ScreenDenylist ==
    /\ verdict' = [validator |-> "reject_injection",
                   ok |-> ~reject_injection(field_data)]
    /\ UNCHANGED <<field_data, appVars, config>>

\* ContactForm().fname.validate(form)
ScreenFname ==
    /\ verdict' = [validator |-> "fname", ok |-> validate_fname(field_data)]
    /\ UNCHANGED <<field_data, appVars, config>>

\* ContactForm().lname.validate(form)
ScreenLname ==
    /\ verdict' = [validator |-> "lname", ok |-> validate_lname(field_data)]
    /\ UNCHANGED <<field_data, appVars, config>>

\* ContactForm().email.validate(form)
ScreenEmail ==
    /\ verdict' = [validator |-> "email", ok |-> validate_email(field_data)]
    /\ UNCHANGED <<field_data, appVars, config>>

\* LoginForm().username.validate(form)
ScreenUsername ==
    /\ verdict' = [validator |-> "username",
                   ok |-> validate_username(field_data)]
    /\ UNCHANGED <<field_data, appVars, config>>

ScreenNext ==
    \/ ScreenDenylist
    \/ ScreenFname
    \/ ScreenLname
    \/ ScreenEmail
    \/ ScreenUsername

SpecScreen == ScreenInit /\ [][ScreenNext]_vars

-----------------------------------------------------------------------------
(* Claims about the screening                                              *)

\* keyword occurs in u at position i, bounded on each side by an end of the
\* string or by a single space
AtTokenBoundary(u, keyword, i) ==
    LET j == i + Len(keyword) - 1
    IN  /\ i >= 1 /\ j <= Len(u)
        /\ SubSeq(u, i, j) = keyword
        /\ (i = 1 \/ u[i - 1] = " ")
        /\ (j = Len(u) \/ u[j + 1] = " ")

ContainsLiteral(v) ==
    \E i \in 1..Len(v) :
        \/ v[i] = ";"
        \/ i < Len(v) /\ <<v[i], v[i + 1]>> \in {<<"-","-">>, <<"/","*">>, <<"*","/">>}

DenylistRejects(v) ==
    \/ ContainsLiteral(v)
    \/ \E keyword \in SQL_KEYWORDS :
           \E i \in 1..Len(v) : AtTokenBoundary(upper(strip(v)), keyword, i)

C5_DenylistOnEveryField ==
    (verdict.validator \in {"fname", "lname", "email", "username"} /\ verdict.ok)
        => ~reject_injection(field_data)

-----------------------------------------------------------------------------
(* Claims about the session guard and the login                            *)

\* the step answers a request of this kind
Asked(op) == last'.op = op

\* the answer of the guard to a request for path: a redirect to the login
\* page that keeps path as the return target, the records and the sessions
\* as they were
Denied(op, path) ==
    /\ last' = Redirect(op, Url(Path("login", 0), path))
    /\ first_app' = first_app
    /\ sessions' = sessions

\* every request of caller c to a route other than login is denied
GuardDenies(c) ==
    /\ (Asked("logout") /\ Logout(c)) => Denied("logout", Path("logout", 0))
    /\ (Asked("index_get") /\ IndexGet(c)) => Denied("index_get", Path("index", 0))
    /\ Asked("index_post") =>
           \A f \in ContactInputs :
               IndexPost(c, f.fname, f.lname, f.email)
                   => Denied("index_post", Path("index", 0))
    /\ Asked("delete") =>
           \A sno \in SnoInputs :
               Delete(c, sno) => Denied("delete", Path("delete", sno))
    /\ Asked("update_get") =>
           \A sno \in SnoInputs :
               UpdateGet(c, sno) => Denied("update_get", Path("update", sno))
    /\ Asked("update_post") =>
           \A sno \in SnoInputs, f \in ContactInputs :
               UpdatePost(c, sno, f.fname, f.lname, f.email)
                   => Denied("update_post", Path("update", sno))

\* C1: a request to list, create, logout, delete or update made with an
\* Anonymous session does not run the view: it is redirected to the login
\* page with the requested path as the return target, and the records and the
\* session stay as they were.
C1_AnonymousIsRedirected ==
    [][\A c \in Callers : Anonymous(sessions[c]) => GuardDenies(c)]_vars

\* an anonymous caller asked to delete record 1 and was sent to the login page
C1_Witness ==
    last = Redirect("delete", Url(Path("login", 0), Path("delete", 1)))

\* C2: once a session has logged out it is Anonymous, and each of its requests
\* to /, /delete/<id>, /update/<id> or /logout is answered as an Anonymous
\* one, until a login succeeds in it.
C2_LoggedOutIsAnonymous ==
    /\ [](\A c \in logged_out : Anonymous(sessions[c]))
    /\ [][\A c \in logged_out : GuardDenies(c)]_vars

\* every caller has logged out, and the request made since was sent to the
\* login page
C2_Witness ==
    /\ logged_out = Callers
    /\ last = Redirect("index_get", Url(Path("login", 0), Path("index", 0)))

\* the user a login names, in the store as the view reads it: by the trimmed
\* username, with a hash the password verifies against
Verified(us, username, password) ==
    {u \in us : u.username = strip(username)
                /\ u.password_hash.password = password}

\* the login succeeded: the session is that of the user, the answer a redirect
LoggedIn(c, us) ==
    /\ last'.status = 302
    /\ \E u \in us : sessions'[c] = [user_id |-> u.id, permanent |-> TRUE]

\* the login failed: the form is shown again, every session as it was
NotLoggedIn ==
    /\ last'.status = 200
    /\ sessions' = sessions

C10_SessionsIndependent ==
    [][\A c \in Callers :
          (\/ Asked("logout") /\ Logout(c)
           \/ /\ Asked("login_post")
              /\ \E cred \in LoginInputs :
                     LoginPost(c, cred.username, cred.password, cred.next))
              => \A d \in Callers \ {c} : sessions'[d] = sessions[d]]_vars

\* two sessions are logged in as the same user
C10_Witness ==
    \E c, d \in Callers :
        /\ c # d
        /\ ~Anonymous(sessions[c]) /\ ~Anonymous(sessions[d])
        /\ sessions[c]["user_id"] = sessions[d]["user_id"]

-----------------------------------------------------------------------------
(* Claims about the contact records                                        *)

\* the position of the row with this sno in a listing
Position(listing, sno) == CHOOSE i \in 1..Len(listing) : listing[i].sno = sno

\* C6: every stored contact record's first name, last name and email pass
\* the field's structural rule and the denylist rule, as stored.
C6_StoredFieldsPassScreening ==
    \A r \in first_app :
        /\ validate_fname(r.fname)
        /\ validate_lname(r.lname)
        /\ validate_email(r.email)

\* a record holds a first name that was typed with whitespace around it
C6_Witness == \E r \in first_app : r.fname = <<"D","i">>

\* the three fields of a contact form pass screening
Screened(f) ==
    validate_fname(f.fname) /\ validate_lname(f.lname) /\ validate_email(f.email)

\* C7: a delete or an update of an absent id answers NotFound and changes no
\* record; an update in which a field fails screening applies no field; and
\* any delete or update not answered by the redirect to the list changes no
\* record.  (Each case reads "the outcome is as claimed, or the step is not
\* this request".)
C7_FailedUpdateOrDeleteChangesNothing ==
    [][\A c \in Callers, sno \in SnoInputs :
          LET absent == \A r \in first_app : r.sno # sno
              reached == ~Anonymous(sessions[c])
              unchanged == first_app' = first_app
              NotFound == last'.status = 404 /\ unchanged
              succeeded == /\ last'.status = 302
                           /\ last'.location = Url(Path("index", 0), NoPath)
          IN  /\ Asked("delete") =>
                     \/ /\ (reached /\ absent) => NotFound
                        /\ unchanged \/ succeeded
                     \/ ~Delete(c, sno)
              /\ Asked("update_get") =>
                     \/ /\ (reached /\ absent) => NotFound
                        /\ unchanged
                     \/ ~UpdateGet(c, sno)
              /\ Asked("update_post") =>
                     \A f \in ContactInputs :
                         \/ /\ (reached /\ absent) => NotFound
                            /\ unchanged \/ (succeeded /\ Screened(f))
                         \/ ~UpdatePost(c, sno, f.fname, f.lname, f.email)]_vars

\* an update of an absent id was answered NotFound while the store holds
\* records
C7_Witness == last = Page("update_post", 404) /\ first_app # {}

\* C8: a create by a logged-in caller with fields that pass screening adds
\* exactly one record and leaves the others as they were; the listing then
\* ends with the new record; and in every later listing a record stands after
\* the records that existed when it was created.
C8_CreateAppendsOne ==
    /\ [][\A c \in Callers, f \in ContactInputs :
             (/\ Asked("index_post")
              /\ IndexPost(c, f.fname, f.lname, f.email)
              /\ ~Anonymous(sessions[c])
              /\ Screened(f))
                 => \E r \in first_app' :
                        /\ r \notin first_app
                        /\ first_app' = first_app \cup {r}
                        /\ r.fname = strip(f.fname)
                        /\ r.lname = strip(f.lname)
                        /\ r.email = strip(f.email)
                        /\ students(first_app') = Append(students(first_app), r)]_vars
    /\ [](\A r1, r2 \in first_app :
             born[r1.sno] < born[r2.sno]
                 => Position(students(first_app), r1.sno)
                        < Position(students(first_app), r2.sno))

\* two records are stored, the second created after a delete
C8_Witness == Cardinality(first_app) >= 2 /\ clock > Cardinality(first_app)

-----------------------------------------------------------------------------
(* Claims about the seed admin                                             *)

\* exactly one account bears the configured name, and its hash verifies the
\* configured password
SeedPost(us, cfg) ==
    /\ Cardinality({u \in us : u.username = cfg.username}) = 1
    /\ \A u \in us : u.username = cfg.username
                         => u.password_hash.password = cfg.password

\* C9: after the seed bootstrap has run, once or more, exactly one account
\* bears the configured admin name and its hash verifies the configured
\* password; and a run that finds the store so changes nothing in it.
C9_SeedIdempotent ==
    /\ [](admin_seeded => SeedPost(users, config))
    /\ [][\A cfg \in Configs : Restart(cfg, TRUE) => SeedPost(users', cfg)]_vars
    /\ [][(/\ SeedPost(users, config)
           /\ \/ Restart(config, TRUE)
              \/ \E c \in Callers : LoginGet(c))
              => users' = users]_vars

\* the bootstrap has run over a store that holds two accounts
C9_Witness ==
    admin_seeded /\ Cardinality(users) = 2 /\ SeedPost(users, config)

=============================================================================
